---------------------------- MODULE Spec2Model ----------------------------
(***************************************************************************)
(* A model of the apksigner manifest codec (src/manifest.go, the revision  *)
(* with wrap72) and of the signing protocol signZip (src/apksigner.go).    *)
(*                                                                         *)
(* A byte is a one-character string; a Go string or []byte is a sequence   *)
(* of bytes.  A Manifest (map[string]Attributes) is a function from a set  *)
(* of names to sequences of lines.                                         *)
(***************************************************************************)
EXTENDS Integers, Sequences, FiniteSets, TLC

VARIABLES
    w,        \* SpecWrap: the wrap72 under test, with the writer it wraps
    fed,      \* SpecWrap: the buffers handed to w.Write so far, in order
    one,      \* SpecWrap: a second wrap72 that got the same bytes in one Write
    m,        \* SpecCodec: the Manifest handed to WriteTo
    input,    \* SpecCodec: the bytes of the reader handed to ParseManifest
    pc,       \* SpecCodec: position of the write-then-parse run
    sink,     \* SpecCodec: the io.Writer WriteTo wrote to
    ret,      \* SpecCodec: what WriteTo returned (n, err, or a panic)
    scan,     \* SpecCodec: ParseManifest's scanner, the lines not yet scanned
    k,        \* SpecCodec: ParseManifest's local k (current section name)
    v,        \* SpecCodec: ParseManifest's local v (current attributes)
    parsed,   \* SpecCodec: ParseManifest's local m (the result being built)
    zr,       \* SpecSign: r.File of the zip.Reader, a sequence of entries
    privkey,  \* SpecSign: the dynamic type of signZip's argument privkey
    oldManifest, \* SpecSign: signZip's local oldManifest
    manifest, \* SpecSign: signZip's local manifest
    cursor,   \* SpecSign: index into r.File of the running range loop
    zw,       \* SpecSign: the entries created in the zip.Writer, in order
    sfbuf,    \* SpecSign: signZip's local buf, the bytes handed to pkcs7
    opened,   \* SpecSign: the indices in r.File of the entry streams opened and
              \*           not closed
    spc,      \* SpecSign: position of signZip
    serr,     \* SpecSign: the error signZip returned ("" for nil)
    failed,   \* SpecSign: the first call of the run that failed ("" for none)
    query,    \* SpecIgnore: the name handed to isSpecialIgnored
    verdict   \* SpecIgnore: <<>>, or <<b>> once isSpecialIgnored returned b

wrapVars  == <<w, fed, one>>
codecVars == <<m, input, pc, sink, ret, scan, k, v, parsed>>
signVars  == <<zr, privkey, oldManifest, manifest, cursor, zw, sfbuf, opened,
               spc, serr, failed>>
ignoreVars == <<query, verdict>>
vars      == <<wrapVars, codecVars, signVars, ignoreVars>>

(***************************************************************************)
(* Bytes and byte strings.                                                 *)
(***************************************************************************)
CR == "\r"
LF == "\n"
SP == " "

\* strings.Repeat(c, n) with c a single byte.
Rep(c, n) == [i \in 1..n |-> c]

\* s[i:] and s[:i] of Go, i counted from 0.
From(s, i) == SubSeq(s, i + 1, Len(s))
Upto(s, i) == SubSeq(s, 1, i)

\* strings.HasPrefix
HasPrefix(s, p) == Len(s) >= Len(p) /\ SubSeq(s, 1, Len(p)) = p

\* The bytes of a sequence of buffers, concatenated.
RECURSIVE Flat(_)
Flat(bufs) == IF bufs = <<>> THEN <<>> ELSE Head(bufs) \o Flat(Tail(bufs))

\* The least element of a non-empty set of integers.
Min(S) == CHOOSE x \in S : \A y \in S : x <= y

\* bytes.IndexAny(buf, "\r\n"): the 0-based index of the first CR or LF, -1 if none.
IndexAny(buf) ==
    LET hits == {j \in 1..Len(buf) : buf[j] \in {CR, LF}}
    IN  IF hits = {} THEN -1 ELSE Min(hits) - 1

\* The loop of wrap72.Write that skips a leading run of CR/LF bytes: from i,
\* the first index that is len(buf) or holds neither CR nor LF.
NewlineRun(buf, i) ==
    LET stop == {j \in (i + 1)..Len(buf) : buf[j] \notin {CR, LF}}
    IN  IF stop = {} THEN Len(buf) ELSE Min(stop) - 1

(***************************************************************************)
(* Writers.  A writer is a record: a sink (a bytes.Buffer, a hash, a zip   *)
(* entry) keeps the buffers of the Write calls it accepted, and fails the  *)
(* calls whose ordinal is in its set fails; a wrap72 holds its Writer and  *)
(* its column n.  Write returns the writer after the call, the count of    *)
(* bytes written and the error: 0 for nil, else the ordinal of the sink    *)
(* call that failed.                                                       *)
(***************************************************************************)
NewSink(fails) == [kind |-> "sink", data |-> <<>>, calls |-> 0, fails |-> fails]

SinkWrite(s, buf) ==
    IF (s.calls + 1) \in s.fails
    THEN [w |-> [s EXCEPT !.calls = @ + 1], n |-> 0, err |-> s.calls + 1]
    ELSE [w |-> [s EXCEPT !.calls = @ + 1, !.data = Append(@, buf)],
          n |-> Len(buf), err |-> 0]

\* const max = 70 of wrap72.Write
max == 70

\* &wrap72{Writer: w}
NewWrap72(writer) == [kind |-> "wrap72", Writer |-> writer, n |-> 0]

RECURSIVE Write(_, _)
RECURSIVE Wrap72Loop(_, _, _)

\* The column after a synthetic break, the mutant of which forgets the space.
BreakColumnNoSpace == 1 - 1
BreakColumn == 1

\* The length to write when the run would pass column 70.
SplitAt(wn) == 70 - wn

\* The continuation break []byte("\r\n "), the mutant of which has no space.
BreakBytesNoSpace == <<CR, LF>>
BreakBytes == <<CR, LF, SP>>

\* One iteration of the for loop of wrap72.Write, and the rest of the loop.
Wrap72Loop(ww, buf, n) ==
    IF Len(buf) = 0 THEN [w |-> ww, n |-> n, err |-> 0]
    ELSE
    LET i0 == IndexAny(buf) IN
    IF i0 = 0 THEN
        \* Newline characters (CR/LF) are safe to write
        LET i == NewlineRun(buf, 0)
            r == Write(ww.Writer, Upto(buf, i))
        IN  IF r.err # 0
            THEN [w |-> [ww EXCEPT !.Writer = r.w], n |-> n + r.n, err |-> r.err]
            ELSE Wrap72Loop([ww EXCEPT !.Writer = r.w, !.n = 0], From(buf, i), n + r.n)
    ELSE
        LET i1  == IF i0 = -1 THEN Len(buf) ELSE i0
            brk == ww.n = max
            rb  == IF brk THEN Write(ww.Writer, BreakBytes)
                          ELSE [w |-> ww.Writer, n |-> 0, err |-> 0]
        IN  IF rb.err # 0
            THEN [w |-> [ww EXCEPT !.Writer = rb.w], n |-> n, err |-> rb.err]
            ELSE
            LET wn == IF brk THEN BreakColumn ELSE ww.n
                i  == IF wn + i1 > 70 THEN SplitAt(wn) ELSE i1
                r  == Write(rb.w, Upto(buf, i))
            IN  IF r.err # 0
                THEN [w |-> [ww EXCEPT !.Writer = r.w, !.n = wn],
                      n |-> n + r.n, err |-> r.err]
                ELSE Wrap72Loop([ww EXCEPT !.Writer = r.w, !.n = wn + i],
                                From(buf, i), n + r.n)

\* A Write that would start every call at column 0 (the mutant of Write).
WriteForgettingColumn(ww, buf) ==
    IF ww.kind = "sink" THEN SinkWrite(ww, buf)
    ELSE Wrap72Loop([ww EXCEPT !.n = 0], buf, 0)

\* io.Writer.Write, dispatched on the writer's type.
Write(ww, buf) ==
    IF ww.kind = "sink" THEN SinkWrite(ww, buf) ELSE Wrap72Loop(ww, buf, 0)

\* The sink at the bottom of a chain of writers, and the bytes it holds.
RECURSIVE Bottom(_)
Bottom(ww) == IF ww.kind = "sink" THEN ww ELSE Bottom(ww.Writer)

Delivered(ww) == Flat(Bottom(ww).data)

\* wrap70 of the directory-signing revision: the string form of the wrap.
RECURSIVE wrap70From(_, _)
wrap70From(s, mx) ==
    IF Len(s) > mx
    THEN Upto(s, mx) \o <<CR, LF, SP>> \o wrap70From(From(s, mx), 69)
    ELSE s

wrap70(s) == wrap70From(s, 70)

(***************************************************************************)
(* SpecWrap: a wrap72 over a buffer is fed a bounded number of buffers,    *)
(* each by one Write call; a second wrap72 gets the same bytes in one      *)
(* Write.                                                                  *)
(***************************************************************************)
MaxWrites == 3

\* The buffers a caller may write: runs around the wrap columns, line ends
\* whole and split, a run that starts with a space, the empty buffer.
Chunks ==
    { Rep("a", 1), Rep("b", max - 1), Rep("c", max), Rep("d", max + 1),
      Rep("e", 2 * max), <<SP, "x">>,
      <<CR>>, <<LF>>, <<CR, LF>>, <<>> }

\* The variables of the codec run, at rest in a specification without it.
CodecIdle ==
    /\ m = <<>> /\ input = <<>> /\ pc = "idle" /\ sink = NewSink({})
    /\ ret = [called |-> FALSE, n |-> 0, err |-> 0, panic |-> FALSE, secs |-> <<>>]
    /\ scan = <<>> /\ k = <<>> /\ v = <<>> /\ parsed = <<>>

\* The variables of the wrap72 test, at rest in a specification without it.
WrapIdle ==
    /\ w = NewWrap72(NewSink({})) /\ fed = <<>> /\ one = NewWrap72(NewSink({}))

\* The variables of signZip, at rest in a specification without it.
SignIdle ==
    /\ zr = <<>> /\ privkey = "none" /\ oldManifest = <<>> /\ manifest = <<>>
    /\ cursor = 0 /\ zw = <<>> /\ sfbuf = <<>> /\ opened = {}
    /\ spc = "idle" /\ serr = "" /\ failed = ""

\* The variables of the isSpecialIgnored call, at rest likewise.
IgnoreIdle == query = <<>> /\ verdict = <<>>

WrapInit ==
    /\ w = NewWrap72(NewSink({}))
    /\ fed = <<>>
    /\ one = NewWrap72(NewSink({}))
    /\ CodecIdle /\ SignIdle /\ IgnoreIdle

\* w.Write(buf)
WrapWrite(buf) ==
    /\ Len(fed) < MaxWrites
    /\ w' = Write(w, buf).w
    /\ fed' = Append(fed, buf)
    /\ one' = Write(NewWrap72(NewSink({})), Flat(fed')).w
    /\ UNCHANGED <<codecVars, signVars, ignoreVars>>

WrapNext == \E buf \in Chunks : WrapWrite(buf)

SpecWrap == WrapInit /\ [][WrapNext]_vars

(***************************************************************************)
(* Properties of wrap72 (SpecWrap).                                        *)
(***************************************************************************)
\* The synthetic break wrap72.Write emits: it is the only buffer a sink
\* under a wrap72 receives that holds both a line end and another byte.
Break == <<CR, LF, SP>>

\* The indices at which a "\r\n" ends in d, and the length of the physical
\* line that ends at e (its "\r\n" included).
LineEnds(d) == {j \in 2..Len(d) : d[j - 1] = CR /\ d[j] = LF}

LineLen(d, e) ==
    LET before == {j \in LineEnds(d) : j < e}
    IN  e - (IF before = {} THEN 0 ELSE CHOOSE x \in before : \A y \in before : y <= x)

\* Every physical line of d, the unterminated last one too, has at most
\* 72 bytes.
LinesWithin72(d) == \A e \in LineEnds(d) \cup {Len(d)} : LineLen(d, e) <= 72

\* CR and LF occur in s only as the pair "\r\n" (a last CR may still wait
\* for its LF).
PairedNewlines(s) ==
    \A j \in 1..Len(s) :
        /\ s[j] = CR => (j = Len(s) \/ s[j + 1] = LF)
        /\ s[j] = LF => (j > 1 /\ s[j - 1] = CR)

NoNewline(s) == \A j \in 1..Len(s) : s[j] \notin {CR, LF}

\* Every continuation line is the one space of a break followed by
\* content: a break is followed by a buffer of 1 to 69 bytes that are no
\* line ends, and with the breaks taken out the bytes are those fed.
OneSpaceContinuations(data, stream) ==
    /\ \A j \in 1..Len(data) :
          data[j] = Break =>
              /\ j < Len(data)
              /\ Len(data[j + 1]) \in 1..69
              /\ NoNewline(data[j + 1])
    /\ Flat(SelectSeq(data, LAMBDA b : b # Break)) = stream

\* C2 as stated: for any byte stream fed through any sequence of Write
\* calls, every physical line delivered (delimited by "\r\n") has at most
\* 72 bytes with its "\r\n", and every continuation line begins with
\* exactly one space.
C2_AnyStream ==
    /\ LinesWithin72(Delivered(w))
    /\ OneSpaceContinuations(Bottom(w).data, Flat(fed))

\* C2 amended: for any byte stream in which CR and LF occur only as the pair
\* "\r\n", fed through any sequence of Write calls, every physical line
\* delivered has at most 72 bytes with its "\r\n"; and for any byte stream,
\* every continuation line begins with exactly one space, followed by the
\* next bytes of the stream.
C2_WrapInvariant ==
    /\ PairedNewlines(Flat(fed)) => LinesWithin72(Delivered(w))
    /\ OneSpaceContinuations(Bottom(w).data, Flat(fed))

\* A stream of "\r\n"-terminated lines in which a full continuation line
\* was written and terminated.
C2_Witness ==
    /\ PairedNewlines(Flat(fed))
    /\ \E j \in 1..Len(Bottom(w).data) : Bottom(w).data[j] = Break
    /\ \E e \in LineEnds(Delivered(w)) : LineLen(Delivered(w), e) = 72 /\ e > 72

\* The 70/69 layout in closed form: physical line r (from 0) takes the
\* output bytes 72r+1 .. 72r+72; its columns 70 and 71 hold "\r\n", column
\* 0 of a continuation line holds the space, and the rest is content.
Breaks7069(len) == IF len <= 70 THEN 0 ELSE ((len - 71) \div 69) + 1

Layout7069(line) ==
    [q \in 1..(Len(line) + 3 * Breaks7069(Len(line))) |->
        LET r == (q - 1) \div 72
            c == (q - 1) % 72
        IN  IF c = 70 THEN CR
            ELSE IF c = 71 THEN LF
            ELSE IF r = 0 THEN line[c + 1]
            ELSE IF c = 0 THEN SP
            ELSE line[70 + 69 * (r - 1) + c]]

\* C3: a logical line without CR/LF written to a fresh wrap72 comes out as
\* 70 content bytes, then continuation lines of one space and 69 content
\* bytes, with a break only where more content follows; the bytes are those
\* of wrap70 on the same line.
C3_SplitPositions ==
    NoNewline(Flat(fed)) =>
        /\ Delivered(w) = Layout7069(Flat(fed))
        /\ Delivered(w) = wrap70(Flat(fed))

\* A line long enough for two breaks, the second continuation line not empty.
C3_Witness ==
    /\ NoNewline(Flat(fed))
    /\ Len(Flat(fed)) > 70 + 69
    /\ Len(Delivered(w)) = Len(Flat(fed)) + 6

\* C15: for any byte sequence and any partition of it into successive Write
\* calls on one wrap72 (a split between \r and \n or at column 70
\* included), the bytes delivered to the underlying writer are those a
\* single Write of the whole sequence delivers.
C15_ChunkingIndependence == Delivered(w) = Delivered(one)

\* 70 bytes, then \r and \n in two further calls, then equal deliveries.
C15_Witness ==
    /\ fed = << Rep("c", max), <<CR>>, <<LF>> >>
    /\ Delivered(w) = Delivered(one)

\* A call that ends at column 70 and a next one that goes on: the break is
\* written by the later call.
C15_WitnessColumn70 ==
    /\ Len(fed) = 2 /\ fed[1] = Rep("c", max) /\ fed[2] = Rep("a", 1)
    /\ Delivered(w) = Rep("c", max) \o BreakBytes \o Rep("a", 1)
    /\ Delivered(one) = Delivered(w)


(***************************************************************************)
(* Manifest: map[string]Attributes.                                        *)
(***************************************************************************)
\* m[name] of a Go map: the zero value (nil Attributes) for a missing key.
Get(mm, name) == IF name \in DOMAIN mm THEN mm[name] ELSE <<>>

\* m[name] = attrs
Put(mm, name, attrs) ==
    [x \in DOMAIN mm \cup {name} |-> IF x = name THEN attrs ELSE mm[x]]

\* The printable ASCII bytes in code order, from 32, for the order of
\* sort.Strings (Go compares strings bytewise); the two quotes and the
\* backslash are spelled out.
Ascii ==
    << " ", "!", "dquote", "#", "$", "%", "&", "'", "(", ")", "*", "+", ",", "-",
       ".", "/", "0", "1", "2", "3", "4", "5", "6", "7", "8", "9", ":", ";",
       "<", "=", ">", "?", "@", "A", "B", "C", "D", "E", "F", "G", "H", "I",
       "J", "K", "L", "M", "N", "O", "P", "Q", "R", "S", "T", "U", "V", "W",
       "X", "Y", "Z", "[", "bslash", "]", "^", "_", "bquote", "a", "b", "c", "d", "e",
       "f", "g", "h", "i", "j", "k", "l", "m", "n", "o", "p", "q", "r", "s",
       "t", "u", "v", "w", "x", "y", "z", "{", "|", "}", "~" >>

Code(c) ==
    IF c = LF THEN 10
    ELSE IF c = CR THEN 13
    ELSE 31 + (CHOOSE i \in 1..Len(Ascii) : Ascii[i] = c)

\* a < b of Go strings
Less(a, b) ==
    \E i \in 1..Len(b) :
        /\ \A j \in 1..(i - 1) : j <= Len(a) /\ a[j] = b[j]
        /\ (i > Len(a) \/ Code(a[i]) < Code(b[i]))

\* sort.Strings over the keys collected from the map
RECURSIVE SortStrings(_)
SortStrings(S) ==
    IF S = {} THEN <<>>
    ELSE LET least == CHOOSE a \in S : \A b \in S \ {a} : Less(a, b)
         IN  <<least>> \o SortStrings(S \ {least})

NamePrefix == <<"N", "a", "m", "e", ":", " ">>
CRLF == <<CR, LF>>

\* The closure write of WriteTo and WriteEntry: it writes s unless an error
\* is already recorded, adding to n and keeping the error of the call.
\* st holds the closure's w, n and err.
Written(st, r) == [w |-> r.w, n |-> st.n + r.n, err |-> r.err]

Emit(st, s) == IF st.err # 0 THEN st ELSE Written(st, Write(st.w, s))

\* for _, attr := range attrs { write(attr + "\r\n") }
RECURSIVE EmitLines(_, _)
EmitLines(st, attrs) ==
    IF attrs = <<>> THEN st
    ELSE EmitLines(Emit(st, Head(attrs) \o CRLF), Tail(attrs))

\* w = &wrap72{Writer: w} with n and err at their zero values
Wrapped(wr) == [w |-> NewWrap72(wr), n |-> 0, err |-> 0]

\* What a call returns to a caller that holds the writer under the wrap72.
Unwrapped(st) == [w |-> st.w.Writer, n |-> st.n, err |-> st.err]

\* Manifest.WriteEntry(w, name): its own wrap72 over w, the Name line and
\* the attribute lines.
WriteEntry(mm, wr, name) ==
    Unwrapped(EmitLines(Emit(Wrapped(wr), NamePrefix \o name \o CRLF),
                        Get(mm, name)))

\* The extra newline WriteTo ends with; the mutant does without it.
NoTrailer(st) == st
Trailer(st) == Emit(st, CRLF)

\* n, err = n+wn, werr after wn, werr := m.WriteEntry(w, name); the offsets
\* in the sink's bytes where WriteEntry began and ended are kept in sec.
AfterEntry(st, r, name) ==
    [st  |-> Written(st, r),
     sec |-> [name |-> name, from |-> Len(Delivered(st.w)),
              to |-> Len(Delivered(r.w))]]

\* The loop of WriteTo over the sorted names, from the state st of the
\* closure; secs collects the sections' offsets.
RECURSIVE WriteSections(_, _, _, _)
SectionWritten(mm, e, names, secs) ==
    IF e.st.err # 0
    THEN [st |-> e.st, secs |-> Append(secs, e.sec)]
    ELSE WriteSections(mm, e.st, Tail(names), Append(secs, e.sec))

WriteSection(mm, st, names, secs) ==
    SectionWritten(mm, AfterEntry(st, WriteEntry(mm, st.w, Head(names)), Head(names)),
                   names, secs)

WriteSections(mm, st, names, secs) ==
    IF names = <<>> THEN [st |-> Trailer(st), secs |-> secs]
    ELSE WriteSection(mm, Emit(st, CRLF), names, secs)

\* if names[0] == "" { names = names[1:] }
DropMain(names) == IF Head(names) = <<>> THEN Tail(names) ELSE names

\* What WriteTo returns: w after the call, n, err, whether the call
\* panicked, and the sections' offsets.
Returned(r, panicked) ==
    [w |-> r.st.w.Writer, n |-> r.st.n, err |-> r.st.err,
     panic |-> panicked, secs |-> r.secs]

\* Manifest.WriteTo(w) after the main section's lines, with the closure's
\* state st and the sorted names.  names[0] of an empty slice panics.
WriteNamed(mm, st, names) ==
    IF st.err # 0 THEN Returned([st |-> st, secs |-> <<>>], FALSE)
    ELSE IF names = <<>> THEN Returned([st |-> st, secs |-> <<>>], TRUE)
    ELSE Returned(WriteSections(mm, st, DropMain(names), <<>>), FALSE)

\* Manifest.WriteTo(w)
WriteTo(mm, wr) ==
    WriteNamed(mm, EmitLines(Wrapped(wr), Get(mm, <<>>)), SortStrings(DOMAIN mm))

(***************************************************************************)
(* ParseManifest.                                                          *)
(***************************************************************************)
\* bufio.ScanLines over data that ends with a line feed: the tokens are the
\* stretches between line feeds, each without one trailing carriage return.
DropCR(line) ==
    IF Len(line) > 0 /\ line[Len(line)] = CR THEN Upto(line, Len(line) - 1) ELSE line

ScanLines(data) ==
    LET lfs == {j \in 1..Len(data) : data[j] = LF}
        at(i) == CHOOSE q \in lfs : Cardinality({x \in lfs : x <= q}) = i
    IN  [i \in 1..Cardinality(lfs) |->
            DropCR(SubSeq(data, IF i = 1 THEN 1 ELSE at(i - 1) + 1, at(i) - 1))]

\* A scanner over r with only a line end added (the mutant of NewScanner).
NewScannerNoBlank(data) == ScanLines(data \o CRLF)

\* bufio.NewScanner(io.MultiReader(r, strings.NewReader("\r\n\r\n")))
NewScanner(data) == ScanLines(data \o CRLF \o CRLF)

\* v[len(v)-1] += line[1:], and the mutant that keeps the leading space.
FoldKeepingSpace(val, line) == val \o line
Fold(val, line) == val \o From(line, 1)

\* The body of the scan loop: the switch on one line, on the locals m, k, v.
ParseLine(st, line) ==
    IF line = <<>> THEN
        IF Len(st.v) > 0
        THEN [m |-> Put(st.m, st.k, st.v), k |-> <<>>, v |-> <<>>]
        ELSE st
    ELSE IF HasPrefix(line, NamePrefix) THEN
        [st EXCEPT !.k = From(line, Len(NamePrefix))]
    ELSE IF HasPrefix(line, <<SP>>) THEN
        IF Len(st.v) = 0
        THEN [st EXCEPT !.k = Fold(@, line)]
        ELSE [st EXCEPT !.v[Len(st.v)] = Fold(@, line)]
    ELSE [st EXCEPT !.v = Append(@, line)]

\* The bytes hashed for an entry of the signature file: WriteEntry into the
\* hash, then "\r\n" (writeSignatureFile).
HashedEntry(mm, name) == Delivered(WriteEntry(mm, NewSink({}), name).w) \o CRLF

\* ParseManifest(r) as a function of the bytes r yields.
RECURSIVE ParseLines(_, _)
ParseLines(st, lines) ==
    IF lines = <<>> THEN st.m ELSE ParseLines(ParseLine(st, Head(lines)), Tail(lines))

ParseManifest(data) ==
    ParseLines([m |-> <<>>, k |-> <<>>, v |-> <<>>], NewScanner(data))


(***************************************************************************)
(* SpecCodec: either a Manifest is written by WriteTo to a buffer and the  *)
(* bytes are parsed back, or ParseManifest reads given bytes.  The parse   *)
(* goes line by line.                                                      *)
(***************************************************************************)
MaxInLines == 3

\* The sequences over master that keep its order: one per set of indices.
Pick(master, S) ==
    LET F[i \in 0..Len(master)] ==
            IF i = 0 THEN <<>>
            ELSE IF i \in S THEN Append(F[i - 1], master[i]) ELSE F[i - 1]
    IN  F[Len(master)]

Lists(master) == {Pick(master, S) : S \in SUBSET (1..Len(master))}

\* Section names: the main section, a short name, and a name that makes the
\* Name line one byte longer than 70 (and sorts before the short one).
LongName == Rep("B", max + 1 - Len(NamePrefix))
Names == {<<>>, <<"a">>, LongName}

\* Attribute lines of the main section: plain, exactly 70 bytes, starting
\* with a space, and 81 bytes with a line feed inside.
MainLines ==
    << <<"M">>, Rep("u", max), <<SP, "y">>,
       Rep("p", 40) \o <<LF>> \o Rep("q", 40) >>

\* Attribute lines of the other sections: plain, long enough for two
\* breaks, empty, and one that reads as a Name line.
SectionLines ==
    << <<"k">>, Rep("v", 2 * max + 1), <<>>, NamePrefix \o <<"x">> >>

LinesOf(name) == IF name = <<>> THEN MainLines ELSE SectionLines

\* Every Manifest over a set of the names, each section holding a selection
\* of its lines.
Manifests ==
    UNION { { [name \in D |-> Pick(LinesOf(name), sel[name])] :
                sel \in [D -> SUBSET (1..Len(MainLines))] } :
            D \in SUBSET Names }

\* Physical lines of a reader's bytes, each followed by "\r\n"; the last
\* one by "\r\n", by "\n" alone or by nothing.
InLines ==
    { <<>>, NamePrefix \o <<"n">>, <<SP, "c">>, <<"a">>, Rep("A", max),
      <<SP, "B", "B", "B", "B">> }

RECURSIVE Join(_, _)
Join(ls, last) ==
    IF Len(ls) = 1 THEN ls[1] \o last
    ELSE Head(ls) \o CRLF \o Join(Tail(ls), last)

Inputs ==
    { Join(ls, last) :
        ls \in UNION {[1..n -> InLines] : n \in 1..MaxInLines},
        last \in {CRLF, <<LF>>, <<>>} }

\* The Write calls of the sink that fail: none, one call (counted from 1),
\* or that call and all later ones of the run.
MaxFailAt == 4
FailSets ==
    {{}} \cup {{c} : c \in 1..MaxFailAt} \cup {c..(c + MaxFailAt) : c \in 1..MaxFailAt}

CodecInit ==
    /\ \/ m \in Manifests /\ input = <<>> /\ pc = "write"
            /\ sink \in {NewSink(fails) : fails \in FailSets}
       \/ m = <<>> /\ input \in Inputs /\ pc = "read" /\ sink = NewSink({})
    /\ ret = [called |-> FALSE, n |-> 0, err |-> 0, panic |-> FALSE, secs |-> <<>>]
    /\ scan = <<>> /\ k = <<>> /\ v = <<>> /\ parsed = <<>>
    /\ WrapIdle /\ SignIdle /\ IgnoreIdle

\* _, err = m.WriteTo(buf); the bytes written are then handed to a reader.
CodecWriteTo ==
    /\ pc = "write"
    /\ LET r == WriteTo(m, sink)
       IN  /\ sink' = r.w
           /\ ret' = [called |-> TRUE, n |-> r.n, err |-> r.err,
                      panic |-> r.panic, secs |-> r.secs]
           /\ pc' = IF r.panic THEN "panicked" ELSE IF r.err # 0 THEN "failed" ELSE "read"
           /\ input' = IF r.panic \/ r.err # 0 THEN input ELSE Delivered(r.w)
    /\ UNCHANGED <<m, scan, k, v, parsed, wrapVars, signVars, ignoreVars>>

\* ParseManifest(r) up to the scanner: m := Manifest{}; k, v := "", Attributes{}
CodecParse ==
    /\ pc = "read"
    /\ scan' = NewScanner(input)
    /\ k' = <<>> /\ v' = <<>> /\ parsed' = <<>>
    /\ pc' = "scan"
    /\ UNCHANGED <<m, input, sink, ret, wrapVars, signVars, ignoreVars>>

\* One turn of for scan.Scan() { ... }
CodecScan ==
    /\ pc = "scan" /\ scan # <<>>
    /\ LET st == ParseLine([m |-> parsed, k |-> k, v |-> v], Head(scan))
       IN  parsed' = st.m /\ k' = st.k /\ v' = st.v
    /\ scan' = Tail(scan)
    /\ UNCHANGED <<m, input, pc, sink, ret, wrapVars, signVars, ignoreVars>>

\* scan.Scan() returns false with scan.Err() nil: return m, nil
CodecReturn ==
    /\ pc = "scan" /\ scan = <<>>
    /\ pc' = "done"
    /\ UNCHANGED <<m, input, sink, ret, scan, k, v, parsed, wrapVars, signVars, ignoreVars>>

CodecNext == CodecWriteTo \/ CodecParse \/ CodecScan \/ CodecReturn

SpecCodec == CodecInit /\ [][CodecNext]_vars


(***************************************************************************)
(* Properties of the codec (SpecCodec).                                    *)
(***************************************************************************)
\* A name or line the round trip is promised for: no CR/LF, no leading space.
Plain(x) == NoNewline(x) /\ ~HasPrefix(x, <<SP>>)

PlainManifest(mm) ==
    \A name \in DOMAIN mm :
        /\ Plain(name)
        /\ \A i \in 1..Len(mm[name]) : Plain(mm[name][i])

\* Every section holds a line, and no line is empty or reads as a Name line.
Representable(mm) ==
    /\ DOMAIN mm # {}
    /\ \A name \in DOMAIN mm :
        /\ Len(mm[name]) >= 1
        /\ \A i \in 1..Len(mm[name]) :
            mm[name][i] # <<>> /\ ~HasPrefix(mm[name][i], NamePrefix)

\* Some name and some line of mm are long enough to be wrapped.
HasWrappedNameAndLine(mm) ==
    /\ \E name \in DOMAIN mm : Len(NamePrefix) + Len(name) > 70
    /\ \E name \in DOMAIN mm : \E i \in 1..Len(mm[name]) : Len(mm[name][i]) > 70

\* C1 as stated: for every Manifest M whose names and lines hold no CR/LF
\* and do not begin with a space, ParseManifest of the bytes M.WriteTo wrote
\* returns a Manifest equal to M.
C1_RoundTripAnyPlain ==
    (ret.called /\ sink.fails = {} /\ PlainManifest(m)) =>
        /\ pc # "panicked"
        /\ pc = "done" => parsed = m

\* Round trip of the Manifests the text format can carry: with at least
\* one section, every section holding at least one attribute line, no line
\* empty or beginning with "Name: ", no CR/LF and no leading space,
\* ParseManifest of the bytes WriteTo wrote returns the Manifest written,
\* wrapped names and lines included.
RoundTripRepresentable ==
    (ret.called /\ sink.fails = {} /\ PlainManifest(m) /\ Representable(m)) =>
        /\ pc \notin {"panicked", "failed"}
        /\ pc = "done" => parsed = m

\* WriteTo has panicked on a Manifest with no section at all.
PanickedOnEmpty ==
    pc = "panicked" /\ sink.fails = {} /\ DOMAIN m = {} /\ ret.panic

\* A section without attribute lines was written and is gone after parsing.
LostEmptySection ==
    /\ pc = "done" /\ ret.called /\ sink.fails = {} /\ PlainManifest(m)
    /\ \E name \in DOMAIN m : m[name] = <<>> /\ name \notin DOMAIN parsed

\* The step of the scan loop on a line that begins with a space.
FoldStep ==
    (pc = "scan" /\ scan # <<>> /\ HasPrefix(Head(scan), <<SP>>)) =>
        /\ parsed' = parsed
        /\ IF Len(v) = 0
           THEN k' = k \o Tail(Head(scan)) /\ v' = v
           ELSE /\ k' = k
                /\ v' = [i \in 1..Len(v) |->
                            IF i = Len(v) THEN v[i] \o Tail(Head(scan)) ELSE v[i]]

SeventyAndFour == Rep("A", 70) \o CRLF \o <<SP, "B", "B", "B", "B">>

\* C4: ParseManifest folds a physical line that begins with a space into
\* the value opened last, dropping that space and appending the rest
\* unchanged: onto the section name while the section has no attribute
\* line, else onto the last attribute line.  A 70-byte line followed by
\* " BBBB" parses as one value of 74 bytes.
C4_ContinuationFold ==
    /\ [][FoldStep]_vars
    /\ [](pc = "done" /\ input \in {SeventyAndFour, SeventyAndFour \o CRLF} =>
            parsed = (<<>> :> <<Rep("A", 70) \o <<"B", "B", "B", "B">>>>))

\* The 74-byte value has been parsed.
C4_Witness ==
    /\ pc = "done" /\ input = SeventyAndFour
    /\ <<>> \in DOMAIN parsed
    /\ Len(parsed[<<>>]) = 1 /\ Len(parsed[<<>>][1]) = 74

\* A name continued over a second physical line has been parsed.
C4_WitnessName ==
    /\ pc = "done" /\ ~ret.called
    /\ <<"n", "c">> \in DOMAIN parsed

\* The names of S in ascending order.
Ascending(S) ==
    CHOOSE o \in [1..Cardinality(S) -> S] :
        \A i, j \in 1..Cardinality(S) : i < j => Less(o[i], o[j])

\* The layout of the serializer's contract: the main section's lines, then
\* per named section in ascending order a blank line, the Name line and
\* the lines, every line wrapped 70/69 and ended by "\r\n".
LineBlock(ls) == Flat([i \in 1..Len(ls) |-> Layout7069(ls[i]) \o CRLF])

SectionBlock(mm, name) ==
    CRLF \o Layout7069(NamePrefix \o name) \o CRLF \o LineBlock(mm[name])

ContractLayout(mm) ==
    LET order == Ascending(DOMAIN mm \ {<<>>})
    IN  LineBlock(Get(mm, <<>>))
            \o Flat([i \in 1..Len(order) |-> SectionBlock(mm, order[i])])

NoNewlines(mm) ==
    \A name \in DOMAIN mm :
        NoNewline(name) /\ \A i \in 1..Len(mm[name]) : NoNewline(mm[name][i])

\* C5 as stated: for any Manifest the bytes WriteTo delivers are exactly
\* the contract's layout.
C5_ExactLayout ==
    (ret.called /\ sink.fails = {}) =>
        (~ret.panic /\ Delivered(sink) = ContractLayout(m))

\* What WriteTo does deliver for a Manifest with at least one section
\* whose names and lines hold no CR/LF: the contract's layout followed by
\* one more "\r\n" (the line the code marks as a hack).
LayoutWithTrailer ==
    (ret.called /\ sink.fails = {} /\ DOMAIN m # {} /\ NoNewlines(m)) =>
        /\ ~ret.panic /\ ret.err = 0
        /\ Delivered(sink) = ContractLayout(m) \o CRLF

WriteFailed ==
    /\ ret.called /\ ~ret.panic
    /\ sink.fails # {} /\ sink.calls >= Min(sink.fails)

\* C12 as stated: if a write to the underlying sink fails during WriteTo,
\* whichever write it is, WriteTo issues no further write to the sink and
\* returns that first error.
C12_FirstErrorStops ==
    WriteFailed => (sink.calls = Min(sink.fails) /\ ret.err = Min(sink.fails))

\* What does hold: when the Manifest has no named section, so that every
\* write is a main-section line, the failed write is the last one and its
\* error is returned.
MainLineFailureStops ==
    (WriteFailed /\ DOMAIN m \subseteq {<<>>}) =>
        (sink.calls = Min(sink.fails) /\ ret.err = Min(sink.fails))

\* The write of a section separator failed, WriteEntry wrote on, and WriteTo
\* returned nil.
FailureSwallowed ==
    /\ WriteFailed /\ ret.err = 0
    /\ sink.calls > Min(sink.fails)
    /\ DOMAIN m = {<<>>, <<"a">>} /\ m[<<>>] = <<<<"M">>>> /\ m[<<"a">>] = <<<<"k">>>>

\* With a sink that fails from one call on, a write was still issued after
\* the first failure, and the error returned is the later one.
WroteOnAfterFailure ==
    /\ WriteFailed /\ Cardinality(sink.fails) > 1
    /\ sink.calls = Min(sink.fails) + 1 /\ ret.err = Min(sink.fails) + 1

\* The sections for which WriteTo delivered a Name line: the bytes at the
\* offset where WriteEntry began are "Name: ".
NamedBlocks ==
    { ret.secs[i].name : i \in
        { j \in 1..Len(ret.secs) :
            /\ ret.secs[j].to > ret.secs[j].from
            /\ HasPrefix(From(Delivered(sink), ret.secs[j].from), NamePrefix) } }

\* C13 as stated: for any Manifest, WriteTo never emits a Name block for a
\* section that has zero attribute lines.
C13_NoEmptyNamedBlock ==
    (ret.called /\ ~ret.panic /\ sink.fails = {}) =>
        \A name \in NamedBlocks : Len(m[name]) > 0

\* What does hold: WriteTo emits a Name block for every named section of
\* the Manifest, with or without attribute lines.
NamedBlockPerSection ==
    (ret.called /\ ~ret.panic /\ sink.fails = {}) =>
        NamedBlocks = DOMAIN m \ {<<>>}

\* A Manifest whose section a has no attribute line was written as
\* "\r\nName: a\r\n\r\n".
EmptyBlockWritten ==
    /\ ret.called /\ sink.fails = {}
    /\ DOMAIN m = {<<"a">>} /\ m[<<"a">>] = <<>>
    /\ Delivered(sink) = CRLF \o NamePrefix \o <<"a">> \o CRLF \o CRLF

\* The attribute lines in progress leave v only by being committed.
CommitStep == (v # <<>> /\ v' = <<>>) => (k \in DOMAIN parsed' /\ parsed'[k] = v)

\* C14: ParseManifest commits the final in-progress section when the input
\* ends without a terminating blank line or without a final line
\* terminator: at return no attribute line is left uncommitted, the lines
\* in progress are only ever dropped from v by being stored in the result,
\* and parsing the input gives the same Manifest as parsing the input
\* followed by a line end or by a line end and a blank line.
C14_EndOfStreamFlush ==
    /\ [][CommitStep]_vars
    /\ [](pc = "done" =>
            /\ v = <<>>
            /\ parsed = ParseManifest(input \o CRLF)
            /\ parsed = ParseManifest(input \o CRLF \o CRLF))

\* "Name: n\r\na" with nothing after the a: the section n holds the line a.
C14_Witness ==
    /\ pc = "done"
    /\ input = NamePrefix \o <<"n">> \o CRLF \o <<"a">>
    /\ parsed = (<<"n">> :> << <<"a">> >>)

(***************************************************************************)
(* isSpecialIgnored (src/apksigner.go).                                    *)
(***************************************************************************)
\* "META-INF/"
MetaInf == <<"M", "E", "T", "A", "-", "I", "N", "F", "/">>
\* "META-INF/MANIFEST.MF", "META-INF/CERT.SF"
pathManifest == MetaInf \o <<"M", "A", "N", "I", "F", "E", "S", "T", ".", "M", "F">>
pathCertSf == MetaInf \o <<"C", "E", "R", "T", ".", "S", "F">>
\* "META-INF/CERT.RSA", "META-INF/CERT.EC"
pathCertRsa == MetaInf \o <<"C", "E", "R", "T", ".", "R", "S", "A">>
pathCertEc == MetaInf \o <<"C", "E", "R", "T", ".", "E", "C">>

\* The bytes a '*' of a path.Match pattern may stand for; the mutant lets
\* it stand for '/' too.
AnyByte(c) == c = c
StarMatches(c) == c # "/"

\* path.Match(pattern, name) for patterns made of literal bytes and '*'.
RECURSIVE Match(_, _)
Match(pattern, name) ==
    IF pattern = <<>> THEN name = <<>>
    ELSE IF Head(pattern) = "*"
    THEN \E i \in 0..Len(name) :
            /\ \A j \in 1..i : StarMatches(name[j])
            /\ Match(Tail(pattern), From(name, i))
    ELSE /\ name # <<>>
         /\ Head(name) = Head(pattern)
         /\ Match(Tail(pattern), Tail(name))

\* "META-INF/*.SF", "META-INF/*.RSA", "META-INF/*.DSA", "META-INF/*.EC",
\* "META-INF/SIG-*"
IgnoredPatterns ==
    << MetaInf \o <<"*", ".", "S", "F">>,
       MetaInf \o <<"*", ".", "R", "S", "A">>,
       MetaInf \o <<"*", ".", "D", "S", "A">>,
       MetaInf \o <<"*", ".", "E", "C">>,
       MetaInf \o <<"S", "I", "G", "-", "*">> >>

isSpecialIgnored(name) ==
    IF ~HasPrefix(name, MetaInf) THEN FALSE
    ELSE \/ name = pathManifest
         \/ \E i \in 1..Len(IgnoredPatterns) : Match(IgnoredPatterns[i], name)

(***************************************************************************)
(* SpecIgnore: isSpecialIgnored is asked about one name.                   *)
(***************************************************************************)
DotSF == <<".", "S", "F">>
DotRSA == <<".", "R", "S", "A">>
DotDSA == <<".", "D", "S", "A">>
DotEC == <<".", "E", "C">>
SigDash == <<"S", "I", "G", "-">>
Cert == <<"C", "E", "R", "T">>
Foo == <<"F", "O", "O">>
Other == <<"o", "t", "h", "e", "r">>
Assets == <<"a", "s", "s", "e", "t", "s", "/">>

\* The names asked about: a directory part, a stem and an ending.
QueryDirs ==
    { <<>>, MetaInf, Assets, <<"m", "e", "t", "a", "-", "i", "n", "f", "/">>,
      MetaInf \o <<"x", "/">>, Upto(MetaInf, Len(MetaInf) - 1), <<"x">> \o MetaInf }

QueryStems ==
    { <<>>, Cert, Foo, Other, SigDash, SigDash \o <<"B", "A", "R">>, <<"M", "A", "N", "I", "F", "E", "S", "T">>, <<"x">> }

QueryExts ==
    { <<>>, DotSF, DotRSA, DotDSA, DotEC, <<".", "M", "F">>, <<".", "s", "f">>, <<".", "t", "x", "t">>, <<".", "p", "n", "g">>,
      DotSF \o <<"/", "x">>, DotSF \o <<"x">> }

Queries == { d \o s \o e : d \in QueryDirs, s \in QueryStems, e \in QueryExts }

IgnoreInit ==
    /\ query \in Queries /\ verdict = <<>>
    /\ WrapIdle /\ CodecIdle /\ SignIdle

\* isSpecialIgnored(query)
IgnoreAsk ==
    /\ verdict = <<>>
    /\ verdict' = <<isSpecialIgnored(query)>>
    /\ UNCHANGED <<query, wrapVars, codecVars, signVars>>

IgnoreNext == IgnoreAsk

SpecIgnore == IgnoreInit /\ [][IgnoreNext]_vars

(***************************************************************************)
(* Properties of isSpecialIgnored (SpecIgnore).                            *)
(***************************************************************************)
HasSuffix(s, p) == Len(s) >= Len(p) /\ From(s, Len(s) - Len(p)) = p

\* The policy as the contract words it: the fixed path, or "META-INF/"
\* followed by a slash-free rest that ends in .SF, .RSA, .DSA or .EC or
\* begins with SIG-.
Excluded(name) ==
    \/ name = MetaInf \o <<"M", "A", "N", "I", "F", "E", "S", "T", ".", "M", "F">>
    \/ /\ HasPrefix(name, MetaInf)
       /\ \A i \in Len(MetaInf) + 1..Len(name) : name[i] # "/"
       /\ \/ \E e \in {DotSF, DotRSA, DotDSA, DotEC} :
                HasSuffix(From(name, Len(MetaInf)), e)
          \/ HasPrefix(From(name, Len(MetaInf)), SigDash)

ExcludedExamples ==
    { MetaInf \o <<"M", "A", "N", "I", "F", "E", "S", "T", ".", "M", "F">>, MetaInf \o Cert \o DotSF,
      MetaInf \o Cert \o DotRSA, MetaInf \o Foo \o DotSF,
      MetaInf \o SigDash \o <<"B", "A", "R">> }

KeptExamples ==
    { MetaInf \o Other \o <<".", "t", "x", "t">>, Assets \o <<"x">> \o <<".", "p", "n", "g">> }

\* C9: isSpecialIgnored(name) is true exactly when name is
\* META-INF/MANIFEST.MF or matches META-INF/*.SF, META-INF/*.RSA,
\* META-INF/*.DSA, META-INF/*.EC or META-INF/SIG-* (case-sensitive, '*' not
\* matching '/'); true for META-INF/CERT.SF, META-INF/CERT.RSA,
\* META-INF/FOO.SF, META-INF/SIG-BAR, false for META-INF/other.txt and
\* assets/x.png.
C9_ExclusionPolicy ==
    /\ ExcludedExamples \cup KeptExamples \subseteq Queries
    /\ verdict # <<>> =>
        /\ verdict = <<Excluded(query)>>
        /\ query \in ExcludedExamples => verdict = <<TRUE>>
        /\ query \in KeptExamples => verdict = <<FALSE>>

\* META-INF/FOO.SF was asked about and is ignored.
C9_Witness == query = MetaInf \o Foo \o DotSF /\ verdict = <<TRUE>>

\* META-INF/other.txt was asked about and is not ignored.
C9_WitnessKept == query = MetaInf \o Other \o <<".", "t", "x", "t">> /\ verdict = <<FALSE>>

(***************************************************************************)
(* signZip and writeSignatureFile (src/apksigner.go).                      *)
(*                                                                         *)
(* An entry of the zip.Reader is a record of its header fields and its     *)
(* uncompressed content; an entry of the zip.Writer is the header handed   *)
(* to Create or CreateHeader with the bytes written to it.                 *)
(***************************************************************************)
\* sha1 of a byte string: a value that differs for different strings.
RECURSIVE Str(_)
Str(data) ==
    IF Len(data) = 0 THEN ""
    ELSE IF Len(data) = 1 THEN data[1]
    ELSE Str(Upto(data, Len(data) \div 2)) \o Str(From(data, Len(data) \div 2))

Sha1(data) == "sha1(" \o Str(data) \o ")"

\* base64.StdEncoding of the 20 bytes of a sha1: 28 bytes, the first of
\* which stands here for the value.
base64enc(hash) == <<hash>> \o Rep("=", 28 - 1)

\* "SHA1-Digest", "SHA1-Digest: ", "SHA1-Digest-Manifest: "
DigestKey == <<"S", "H", "A", "1", "-", "D", "i", "g", "e", "s", "t">>
DigestPrefix == DigestKey \o <<":", SP>>
DigestManifestPrefix == DigestKey \o <<"-", "M", "a", "n", "i", "f", "e", "s", "t", ":", " ">>

\* "Manifest-Version: 1.0", "Created-By: 1.0 (Android SignApk)",
\* "Signature-Version: 1.0"
ManifestVersion ==
    <<"M", "a", "n", "i", "f", "e", "s", "t", "-", "V", "e", "r", "s", "i", "o", "n", ":", " ", "1", ".", "0">>
CreatedBy ==
    <<"C", "r", "e", "a", "t", "e", "d", "-", "B", "y", ":", " ", "1", ".", "0", " ">>
        \o <<"(", "A", "n", "d", "r", "o", "i", "d", " ", "S", "i", "g", "n", "A", "p", "k", ")">>
SignatureVersion ==
    <<"S", "i", "g", "n", "a", "t", "u", "r", "e", "-", "V", "e", "r", "s", "i", "o", "n", ":", " ", "1", ".", "0">>

\* "SHA1-Digest: " + base64enc(hash[:]) for the hash of content
DigestLine(content) == DigestPrefix \o base64enc(Sha1(content))

\* Attributes.Without(key): the first line "key: ..." removed.
Without(attrs, key) ==
    IF \A i \in 1..Len(attrs) : ~HasPrefix(attrs[i], key \o <<":", SP>>)
    THEN attrs
    ELSE Upto(attrs, Min({i \in 1..Len(attrs) : HasPrefix(attrs[i], key \o <<":", SP>>)}) - 1)
            \o From(attrs, Min({i \in 1..Len(attrs) : HasPrefix(attrs[i], key \o <<":", SP>>)}))

\* zipFind(r, name): the index of the first entry of that name, 0 for nil.
zipFind(files, name) ==
    IF \A i \in 1..Len(files) : files[i].Name # name THEN 0
    ELSE Min({i \in 1..Len(files) : files[i].Name = name})

getOrInitManifest(files) ==
    IF zipFind(files, pathManifest) = 0
    THEN (<<>> :> <<ManifestVersion, CreatedBy>>)
    ELSE ParseManifest(files[zipFind(files, pathManifest)].content)

\* sort.Slice(r.File, by Name): the orders it may leave the entries in.
\* The sort is not stable, so entries of one name may end in either order.
SortedByName(files) ==
    { [i \in 1..Len(files) |-> files[p[i]]] :
        p \in { q \in [1..Len(files) -> 1..Len(files)] :
                  /\ \A i, j \in 1..Len(files) : i # j => q[i] # q[j]
                  /\ \A i, j \in 1..Len(files) :
                        i < j => ~Less(files[q[j]].Name, files[q[i]].Name) } }

\* !(f.FileInfo().IsDir() || isSpecialIgnored(f.Name))
Signable(f) == ~f.IsDir /\ ~isSpecialIgnored(f.Name)

\* w.Create(name), with the bytes then written to the entry.
Created(name, data) ==
    [Name |-> name, Method |-> "Deflate", Comment |-> <<>>, Extra |-> <<>>,
     CreatorVersion |-> 0, ExternalAttrs |-> 0, data |-> data]

CopyMethod(f) == "Deflate"

\* w.CreateHeader(&zip.FileHeader{...}) for f, with f's content copied in.
Copied(f) ==
    [Name |-> f.Name, Method |-> CopyMethod(f), Comment |-> f.Comment,
     Extra |-> f.Extra, CreatorVersion |-> f.CreatorVersion,
     ExternalAttrs |-> f.ExternalAttrs, data |-> f.content]

\* The bytes writeSignatureFile hashes for SHA1-Digest-Manifest; the mutant
\* hashes the main section only.
HashedMainOnly(mm) == Delivered(EmitLines(Wrapped(NewSink({})), Get(mm, <<>>)).w)
HashedManifest(mm) == Delivered(WriteTo(mm, NewSink({})).w)

\* writeSignatureFile, the two header lines.
SfHeader(wr) ==
    Emit(Emit([w |-> wr, n |-> 0, err |-> 0], SignatureVersion \o CRLF),
         CreatedBy \o CRLF)

SfManifestDigest(st, mm) ==
    Emit(st, DigestManifestPrefix \o base64enc(Sha1(HashedManifest(mm)))
                \o CRLF \o CRLF)

SfEntry(st, mm, name) ==
    Emit(Emit(st, NamePrefix \o name \o CRLF),
         DigestLine(HashedEntry(mm, name)) \o CRLF \o CRLF)

\* writeSignatureFile, the loop over sortedFiles.
RECURSIVE SfEntries(_, _, _)
SfEntries(st, mm, files) ==
    IF files = <<>> \/ st.err # 0 THEN st
    ELSE IF Len(Get(mm, Head(files).Name)) = 0
    THEN SfEntries(st, mm, Tail(files))
    ELSE SfEntries(SfEntry(st, mm, Head(files).Name), mm, Tail(files))

writeSignatureFile(wr, mm, sortedFiles) ==
    SfEntries(SfManifestDigest(SfHeader(wr), mm), mm, sortedFiles)

\* sign.Finish() of the detached pkcs7 signature over the signed data.
Signature(data) == <<"pkcs7(" \o Str(data) \o ")">>

(***************************************************************************)
(* SpecSign: one run of signZip over a source archive.                     *)
(***************************************************************************)
MaxFiles == 3

\* An earlier digest of an entry, as found in an already signed archive.
StaleDigest == DigestPrefix \o base64enc(Sha1(<<"s", "t", "a", "l", "e">>))
OtherStaleDigest == DigestPrefix \o base64enc(Sha1(<<"o", "l", "d", "e", "r">>))

\* The manifests a source archive may carry: one section with a foreign
\* attribute and a stale digest; one section with two digest lines and a
\* section of an entry that is gone; no main section and the digest first.
OldManifests ==
    { (<<>> :> <<ManifestVersion>>)
        @@ (<<"b">> :> <<<<"X", "-", "C", "u", "s", "t", "o", "m", ":", " ", "1">>, StaleDigest>>),
      (<<>> :> <<ManifestVersion>>)
        @@ (<<"b">> :> <<StaleDigest, <<"X", "-", "C", "u", "s", "t", "o", "m", ":", " ", "1">>, OtherStaleDigest>>)
        @@ (<<"g", "o", "n", "e">> :> <<<<"K", ":", " ", "v">>>>),
      (<<"a">> :> <<StaleDigest, <<"Y", ":", " ", "2">>>>) }

File(name, isDir, method, version, attrs, content) ==
    [Name |-> name, IsDir |-> isDir, Method |-> method, Comment |-> <<>>,
     Extra |-> <<>>, CreatorVersion |-> version, ExternalAttrs |-> attrs,
     content |-> content]

\* The entries a source archive is made of: a stored and a deflated file,
\* a second, empty entry of the same name as the latter, a directory, an
\* old signature file and an old manifest.
SourceFiles ==
    { File(<<"a">>, FALSE, "Store", 788, 33261, <<"x", "y">>),
      File(<<"b">>, FALSE, "Deflate", 20, 0, <<"z">>),
      File(<<"b">>, FALSE, "Store", 20, 0, <<>>),
      File(<<"d", "/">>, TRUE, "Store", 788, 16877, <<>>),
      File(pathCertSf, FALSE, "Deflate", 20, 0, <<"o">>) }
    \cup { File(pathManifest, FALSE, "Deflate", 20, 0, HashedManifest(old)) :
              old \in OldManifests }

\* r.File: up to MaxFiles different entries, in any order.  A zip archive
\* may hold several entries of one name.
Archives ==
    UNION { { files \in [1..n -> SourceFiles] :
                \A i, j \in 1..n : i # j => files[i] # files[j] } :
            n \in 0..MaxFiles }

\* The Write calls of an output entry that fail: none, or one call and all
\* later ones (the archive writer keeps an error once it has one).
ArchiveFaults == {{}} \cup {c..(c + MaxFailAt) : c \in 1..MaxFailAt}

SignInit ==
    /\ zr \in Archives
    /\ privkey \in {"*rsa.PrivateKey", "*ecdsa.PrivateKey", "ed25519.PrivateKey"}
    /\ oldManifest = <<>> /\ manifest = <<>> /\ cursor = 0
    /\ zw = <<>> /\ sfbuf = <<>> /\ opened = {}
    /\ spc = "start" /\ serr = "" /\ failed = ""
    /\ WrapIdle /\ CodecIdle /\ IgnoreIdle

\* The call named what has failed.
Failing(what) == failed' = IF failed = "" THEN what ELSE failed

\* if err != nil { return err } after the call named what has failed.
Abort(what) == Failing(what) /\ serr' = what /\ spc' = "returned"

\* oldManifest, err := getOrInitManifest(r); manifest := Manifest{"": ...};
\* sort.Slice(r.File, ...).  Opening or reading an old manifest may fail.
SignStart ==
    /\ spc = "start"
    /\ \E outcome \in {"ok", "getOrInitManifest"} :
        IF outcome = "ok"
        THEN /\ oldManifest' = getOrInitManifest(zr)
             /\ manifest' = (<<>> :> Get(oldManifest', <<>>))
             /\ zr' \in SortedByName(zr)
             /\ cursor' = 1
             /\ spc' = "digest"
             /\ UNCHANGED <<serr, failed>>
        ELSE /\ zipFind(zr, pathManifest) # 0
             /\ Abort(outcome)
             /\ UNCHANGED <<oldManifest, manifest, zr, cursor>>
    /\ UNCHANGED <<privkey, zw, sfbuf, opened, wrapVars, codecVars, ignoreVars>>

\* One turn of the digest loop: f.Open() and sha1sum(contents) may fail.
SignDigest ==
    /\ spc = "digest" /\ cursor <= Len(zr)
    /\ IF ~Signable(zr[cursor])
       THEN /\ cursor' = cursor + 1
            /\ UNCHANGED <<opened, manifest, spc, serr, failed>>
       ELSE \E outcome \in {"ok", "f.Open", "sha1sum"} :
            IF outcome = "ok"
            THEN /\ opened' = opened \cup {cursor}
                 /\ manifest' =
                      Put(manifest, zr[cursor].Name,
                          Append(Without(Get(oldManifest, zr[cursor].Name), DigestKey),
                                 DigestLine(zr[cursor].content)))
                 /\ cursor' = cursor + 1
                 /\ UNCHANGED <<spc, serr, failed>>
            ELSE /\ Abort(outcome)
                 /\ opened' = IF outcome = "f.Open" THEN opened ELSE opened \cup {cursor}
                 /\ UNCHANGED <<manifest, cursor>>
    /\ UNCHANGED <<zr, privkey, oldManifest, zw, sfbuf, wrapVars, codecVars, ignoreVars>>

\* packed, err := w.Create(pathManifest); _, err = manifest.WriteTo(packed)
SignWriteManifest ==
    /\ spc = "digest" /\ cursor > Len(zr)
    /\ \/ /\ Abort("w.Create")
          /\ zw' = zw
       \/ \E fails \in ArchiveFaults :
            /\ zw' = Append(zw, Created(pathManifest,
                                        Delivered(WriteTo(manifest, NewSink(fails)).w)))
            /\ IF WriteTo(manifest, NewSink(fails)).err # 0
               THEN Abort("manifest.WriteTo")
               ELSE spc' = "sf" /\ UNCHANGED <<serr, failed>>
    /\ UNCHANGED <<zr, privkey, oldManifest, manifest, cursor, sfbuf, opened,
                   wrapVars, codecVars, ignoreVars>>

\* packed, err = w.Create(pathCertSf);
\* err = writeSignatureFile(io.MultiWriter(packed, buf), manifest, r.File)
SignWriteSf ==
    /\ spc = "sf"
    /\ \/ /\ Abort("w.Create")
          /\ UNCHANGED <<zw, sfbuf>>
       \/ \E fails \in ArchiveFaults :
            /\ sfbuf' = Delivered(writeSignatureFile(NewSink(fails), manifest, zr).w)
            /\ zw' = Append(zw, Created(pathCertSf, sfbuf'))
            /\ IF writeSignatureFile(NewSink(fails), manifest, zr).err # 0
               THEN Abort("writeSignatureFile")
               ELSE spc' = "sign" /\ UNCHANGED <<serr, failed>>
    /\ UNCHANGED <<zr, privkey, oldManifest, manifest, cursor, opened,
                   wrapVars, codecVars, ignoreVars>>

\* "META-INF/CERT.EC" or "META-INF/CERT.RSA" by privkey.(type)
CertPath == IF privkey = "*ecdsa.PrivateKey" THEN pathCertEc ELSE pathCertRsa

\* The pkcs7 signature, the switch on privkey.(type), w.Create and
\* packed.Write(signature).
SignSign ==
    /\ spc = "sign"
    /\ \E outcome \in {"ok", "pkcs7", "w.Create", "packed.Write"} :
        IF outcome = "pkcs7"
        THEN Abort(outcome) /\ UNCHANGED <<zw, cursor>>
        ELSE IF privkey \notin {"*ecdsa.PrivateKey", "*rsa.PrivateKey"}
        THEN /\ outcome = "ok"
             /\ serr' = "TODO: unhandled type of private key"
             /\ spc' = "returned"
             /\ UNCHANGED <<zw, cursor, failed>>
        ELSE IF outcome = "w.Create"
        THEN Abort(outcome) /\ UNCHANGED <<zw, cursor>>
        ELSE IF outcome = "packed.Write"
        THEN /\ Abort(outcome)
             /\ zw' = Append(zw, Created(CertPath, <<>>))
             /\ cursor' = cursor
        ELSE /\ zw' = Append(zw, Created(CertPath, Signature(sfbuf)))
             /\ spc' = "copy" /\ cursor' = 1
             /\ UNCHANGED <<serr, failed>>
    /\ UNCHANGED <<zr, privkey, oldManifest, manifest, sfbuf, opened,
                   wrapVars, codecVars, ignoreVars>>

\* One turn of the copy loop: CreateHeader, f.Open(), io.Copy,
\* contents.Close().  The error of CreateHeader is assigned and not looked
\* at: with packed nil, io.Copy of an empty entry writes nothing and
\* returns nil, that of any other entry calls Write on a nil io.Writer.
SignCopy ==
    /\ spc = "copy" /\ cursor <= Len(zr)
    /\ IF ~Signable(zr[cursor])
       THEN /\ cursor' = cursor + 1
            /\ UNCHANGED <<zw, opened, spc, serr, failed>>
       ELSE \E outcome \in {"ok", "w.CreateHeader", "f.Open", "io.Copy"} :
            IF outcome = "ok"
            THEN /\ zw' = Append(zw, Copied(zr[cursor]))
                 /\ cursor' = cursor + 1
                 /\ UNCHANGED <<opened, spc, serr, failed>>
            ELSE IF outcome = "w.CreateHeader"
            THEN /\ Failing(outcome)
                 /\ IF zr[cursor].content = <<>>
                    THEN cursor' = cursor + 1 /\ UNCHANGED <<opened, spc>>
                    ELSE /\ spc' = "panicked"
                         /\ opened' = opened \cup {cursor}
                         /\ cursor' = cursor
                 /\ UNCHANGED <<zw, serr>>
            ELSE /\ Abort(outcome)
                 /\ zw' = IF outcome = "f.Open" THEN zw
                          ELSE Append(zw, [Copied(zr[cursor]) EXCEPT !.data = <<>>])
                 /\ opened' = IF outcome = "f.Open" THEN opened ELSE opened \cup {cursor}
                 /\ cursor' = cursor
    /\ UNCHANGED <<zr, privkey, oldManifest, manifest, sfbuf,
                   wrapVars, codecVars, ignoreVars>>

\* return nil
SignReturn ==
    /\ spc = "copy" /\ cursor > Len(zr)
    /\ spc' = "returned"
    /\ UNCHANGED <<zr, privkey, oldManifest, manifest, cursor, zw, sfbuf, opened,
                   serr, failed, wrapVars, codecVars, ignoreVars>>

SignNext ==
    \/ SignStart \/ SignDigest \/ SignWriteManifest \/ SignWriteSf
    \/ SignSign \/ SignCopy \/ SignReturn

SpecSign == SignInit /\ [][SignNext]_vars

(***************************************************************************)
(* Properties of signZip (SpecSign).                                       *)
(***************************************************************************)
Succeeded == spc = "returned" /\ serr = ""

\* signZip has returned nil and no call it made had failed.
CleanRun == Succeeded /\ failed = ""

\* The digest loop has run to its end.
Digested == spc \in {"sf", "sign", "copy", "panicked"} \/ Succeeded

IsDigestLine(line) == HasPrefix(line, DigestPrefix)

\* The lines of a section other than its SHA1-Digest lines, in order.
NonDigest(attrs) == SelectSeq(attrs, LAMBDA line : ~IsDigestLine(line))

DigestLines(attrs) == SelectSeq(attrs, IsDigestLine)

\* The source entries the two loops of signZip take.
SignableEntries == {i \in 1..Len(zr) : Signable(zr[i])}

\* Those of them whose name no other entry of the archive has.
SingleEntries ==
    {i \in SignableEntries : \A j \in 1..Len(zr) : zr[j].Name = zr[i].Name => j = i}

\* C6: on every successful run the SHA1-Digest-Manifest value of
\* META-INF/CERT.SF is the digest of exactly the bytes written to the
\* output entry META-INF/MANIFEST.MF.
C6_ManifestDigest ==
    Succeeded =>
        /\ zw[1].Name = pathManifest /\ zw[2].Name = pathCertSf
        /\ \A i \in 3..Len(zw) : zw[i].Name \notin {pathManifest, pathCertSf}
        /\ HasPrefix(zw[2].data,
                     SignatureVersion \o CRLF \o CreatedBy \o CRLF
                        \o DigestManifestPrefix \o base64enc(Sha1(zw[1].data))
                        \o CRLF \o CRLF)

\* A run over an archive with an old manifest and two files has succeeded.
C6_Witness ==
    /\ Succeeded
    /\ zipFind(zr, pathManifest) # 0
    /\ Cardinality(DOMAIN manifest) = 3
    /\ Len(zw) = 5

\* C8 as stated: for every signable entry that had a section in the old
\* manifest, the section signZip builds keeps every old non-digest line in
\* order and holds exactly one SHA1-Digest line, that of the entry's
\* content.
C8_ResignOneDigest ==
    Digested =>
        \A i \in SingleEntries :
            zr[i].Name \in DOMAIN oldManifest =>
                /\ NonDigest(manifest[zr[i].Name]) = NonDigest(oldManifest[zr[i].Name])
                /\ DigestLines(manifest[zr[i].Name]) = <<DigestLine(zr[i].content)>>

\* What does hold: the old non-digest lines are kept in order, the first
\* old SHA1-Digest line is dropped, and the new digest line is the last
\* line; with at most one old digest line no stale one remains.
ResignDropsFirstDigest ==
    Digested =>
        \A i \in SingleEntries :
            /\ NonDigest(manifest[zr[i].Name])
                   = NonDigest(Get(oldManifest, zr[i].Name))
            /\ DigestLines(manifest[zr[i].Name])
                   = IF DigestLines(Get(oldManifest, zr[i].Name)) = <<>>
                     THEN <<DigestLine(zr[i].content)>>
                     ELSE Append(Tail(DigestLines(Get(oldManifest, zr[i].Name))),
                                 DigestLine(zr[i].content))

\* A re-signed section still carries a digest that is not its content's.
StaleDigestRemains ==
    /\ Succeeded
    /\ \E i \in SingleEntries :
          /\ zr[i].Name \in DOMAIN oldManifest
          /\ Len(DigestLines(manifest[zr[i].Name])) = 2

\* The spec's scenario: X-Custom kept, one stale digest refreshed.
ResignedForeignAttribute ==
    /\ Succeeded
    /\ \E i \in SignableEntries :
          /\ zr[i].Name \in DOMAIN oldManifest
          /\ Len(oldManifest[zr[i].Name]) = 2
          /\ Len(manifest[zr[i].Name]) = 2
          /\ manifest[zr[i].Name][1] = oldManifest[zr[i].Name][1]
          /\ manifest[zr[i].Name][2] = DigestLine(zr[i].content)

\* The output entries made by the copy loop.
CopiedEntries ==
    {i \in 1..Len(zw) :
        zw[i].Name \notin {pathManifest, pathCertSf, pathCertRsa, pathCertEc}}

\* The source entry an output entry was copied from: the copies are made
\* in the order of r.File, after the entries of the signature.
SourceOf(i) ==
    zr[CHOOSE j \in SignableEntries :
          Cardinality({x \in SignableEntries : x <= j})
              = Cardinality({x \in CopiedEntries : x <= i})]

\* C10 as stated: every source entry copied to the output is written with
\* the compression method of the source entry, its creator version and
\* external attributes unchanged, and the same content bytes.
C10_VerbatimCopy ==
    failed = "" => \A i \in CopiedEntries :
        /\ zw[i].Method = SourceOf(i).Method
        /\ zw[i].CreatorVersion = SourceOf(i).CreatorVersion
        /\ zw[i].ExternalAttrs = SourceOf(i).ExternalAttrs
        /\ zw[i].data = SourceOf(i).content

\* What does hold: attributes and content are those of the source, the
\* method is Deflate whatever the source's.
CopyDeflates ==
    failed = "" => \A i \in CopiedEntries :
        /\ zw[i].Method = "Deflate"
        /\ zw[i].CreatorVersion = SourceOf(i).CreatorVersion
        /\ zw[i].ExternalAttrs = SourceOf(i).ExternalAttrs
        /\ zw[i].Comment = SourceOf(i).Comment /\ zw[i].Extra = SourceOf(i).Extra
        /\ zw[i].data = SourceOf(i).content

\* A stored source entry has been copied as a deflated one.
StoredCopiedDeflated ==
    failed = "" /\ \E i \in CopiedEntries : SourceOf(i).Method = "Store" /\ zw[i].Method = "Deflate"

\* The names of the "Name: " lines of a manifest or signature file, in the
\* order of the file.
NameLines(data) ==
    SelectSeq(ScanLines(data), LAMBDA line : HasPrefix(line, NamePrefix))

SectionNames(data) ==
    [i \in 1..Len(NameLines(data)) |-> From(NameLines(data)[i], Len(NamePrefix))]

\* The names of the source entries that are neither directories nor
\* excluded, one per entry, in the order of r.File.
SignableNames ==
    [i \in 1..Len(SelectSeq(zr, Signable)) |-> SelectSeq(zr, Signable)[i].Name]

\* The names of the copied output entries, in the order of the archive.
CopiedNames ==
    [i \in 1..Len(zw) - 3 |-> zw[i + 3].Name]

StrictlyAscending(names) ==
    \A i, j \in 1..Len(names) : i < j => Less(names[i], names[j])

\* C16 as stated: after a successful run the named sections of
\* MANIFEST.MF, the Name sub-sections of CERT.SF and the copied entries are
\* the same collection: the source entries that are neither directories
\* nor excluded, each once and in ascending name order.
C16_EntrySetAgreement ==
    CleanRun =>
        /\ SectionNames(zw[1].data) = SignableNames
        /\ SectionNames(zw[2].data) = SignableNames
        /\ CopiedNames = SignableNames
        /\ StrictlyAscending(SignableNames)

\* What does hold: CERT.SF and the copies follow the entries one by one,
\* in the order of the sorted r.File; MANIFEST.MF has one section per
\* name; when no two signable entries share a name the three agree and are
\* in strictly ascending order.
AgreementForSingleNames ==
    CleanRun =>
        /\ SectionNames(zw[2].data) = SignableNames
        /\ CopiedNames = SignableNames
        /\ StrictlyAscending(SectionNames(zw[1].data))
        /\ {SectionNames(zw[1].data)[i] : i \in 1..Len(SectionNames(zw[1].data))}
               = {SignableNames[i] : i \in 1..Len(SignableNames)}
        /\ SingleEntries = SignableEntries =>
              /\ SectionNames(zw[1].data) = SignableNames
              /\ StrictlyAscending(SignableNames)

\* Two entries named b were signed: one section in MANIFEST.MF, two
\* sub-sections in CERT.SF, two copies.
TwoOfOneName ==
    /\ CleanRun
    /\ SignableNames = << <<"b">>, <<"b">> >>
    /\ SectionNames(zw[1].data) = << <<"b">> >>
    /\ SectionNames(zw[2].data) = << <<"b">>, <<"b">> >>
    /\ CopiedNames = << <<"b">>, <<"b">> >>

\* Agreement on an archive of different names, read in unsorted order.
AgreedOnTwo ==
    /\ CleanRun
    /\ SignableNames = << <<"a">>, <<"b">> >>
    /\ Len(zr) = 3
    /\ SectionNames(zw[1].data) = SignableNames
    /\ SectionNames(zw[2].data) = SignableNames
    /\ CopiedNames = SignableNames

\* C17 as stated: every source entry stream that is opened is closed
\* before the loop iteration that opened it ends, in the digest pass as in
\* the copy pass, so that between iterations no entry stream is open (and
\* within one at most one is).
C17_ScopedStreams == opened = {}

\* What does hold: the digest pass closes none of the streams it opens, so
\* after it the stream of every signable entry is open.
DigestPassLeavesOpen ==
    /\ spc = "digest" =>
          opened = {i \in SignableEntries : i < cursor}
    /\ spc \in {"sf", "sign"} => opened = SignableEntries

\* Two entry streams are open at the same time.
TwoStreamsOpen == Cardinality(opened) = 2 /\ spc = "digest"


\* C11 as stated: a failure of any call signZip makes on the way (reading
\* the old manifest, opening an entry, hashing, creating or writing an
\* output entry, signing) makes signZip return that error at once; no run
\* in which a call failed goes on or returns nil.
C11_AbortOnFailure ==
    failed # "" => (spc = "returned" /\ serr = failed)

\* What does hold: every failure but that of w.CreateHeader in the copy
\* loop is returned at once.
AbortsUnlessCreateHeader ==
    failed \notin {"", "w.CreateHeader"} => (spc = "returned" /\ serr = failed)

\* w.CreateHeader failed on an empty entry and signZip returned nil, the
\* entry missing from the output.
HeaderFailureIgnored ==
    /\ Succeeded /\ failed = "w.CreateHeader"
    /\ Cardinality(CopiedEntries) < Cardinality(SignableEntries)

\* w.CreateHeader failed on an entry with content: io.Copy was called with
\* a nil writer.
HeaderFailurePanicked == spc = "panicked" /\ failed = "w.CreateHeader"

\* A failing write of the manifest entry was returned.
ManifestWriteAborted ==
    /\ spc = "returned" /\ serr = "manifest.WriteTo" /\ Len(zw) = 1

=============================================================================
